---- MODULE Spec2Model ----
(***************************************************************************)
(* tf2onnx/function/select.py: the opset-8 lowering of TensorFlow's        *)
(* Select(condition, x, y) into Size / Unsqueeze / Loop{Gather, Squeeze,   *)
(* If{Gather, Squeeze, Identity}, Identity x3} / Identity.                 *)
(*                                                                         *)
(* The module has two parts.  The first builds the node records exactly as *)
(* select_op8 and its helpers do, threading the name counter and the list  *)
(* of constructed nodes through every call so that an exception leaves the *)
(* side effects made before it.  The second executes the emitted nodes on  *)
(* concrete tensors, one top-level node or one Loop iteration per step.    *)
(*                                                                         *)
(* Python indexes from 0, TLA+ sequences from 1: node.input[0] of the      *)
(* source is node.input[1] here.                                           *)
(***************************************************************************)
EXTENDS Integers, Sequences, FiniteSets, TLC

VARIABLES
    INTERNAL_NAME,  \* the counter behind utils.make_name
    ctx_shape,      \* ctx: value name -> best-known shape
    ctx_dtype,      \* ctx: value name -> element type
    created,        \* the name of every node constructed so far, in construction order
    ops,            \* the Select nodes of the program, in the driver's order
    results,        \* results[k]: outcome of select_op8 on ops[k]
    resolved,       \* outcomes of get_hidden_size_best_effort applied on its own
    run             \* the execution of one rewrite's nodes on concrete tensors

vars == <<INTERNAL_NAME, ctx_shape, ctx_dtype, created, ops, results, resolved, run>>

(***************************************************************************)
(* Bounds of the model.                                                    *)
(***************************************************************************)
MaxOps == 2     \* Select operators rewritten in one program
MaxRows == 2    \* rows of the tensors the emitted nodes are executed on

(***************************************************************************)
(* Optional shapes: ctx.get_shape returns a list of dimensions or None.    *)
(***************************************************************************)
None == [known |-> FALSE, dims |-> <<>>]
Some(d) == [known |-> TRUE, dims |-> d]

\* Python's s[1:], which is [] for the empty list
Slice1(s) == IF s = <<>> THEN <<>> ELSE Tail(s)

(***************************************************************************)
(* Names.                                                                  *)
(***************************************************************************)
\* utils.make_name: the counter is incremented, then formatted into the name
make_name(name, cnt) == name \o "__" \o ToString(cnt + 1)

\* utils.port_name: name + ":" + str(nr)
port_name(name, nr) == name \o ":" \o ToString(nr)

(***************************************************************************)
(* Tensors, value signatures, nodes and graphs.                            *)
(***************************************************************************)
\* helper.make_tensor: booleans are stored as 0/1, the float 0.0 as 0
make_tensor(name, data_type, dims, vals) ==
    [dtype |-> data_type, dims |-> dims, data |-> vals]

NoTensor == make_tensor("", "UNDEFINED", <<>>, <<>>)

\* helper.make_tensor_value_info
make_tensor_value_info(name, elem_type, shape) ==
    [name |-> name, dtype |-> elem_type, shape |-> shape]

\* helper.make_graph
make_graph(nodes, name, inputs, outputs) ==
    [node |-> nodes, name |-> name, input |-> inputs, output |-> outputs]

NoGraph == make_graph(<<>>, "", <<>>, <<>>)

\* helper.make_node; the attributes a node does not carry are left empty
make_node(op_type, inputs, outputs, name, axes, value) ==
    [op_type |-> op_type, input |-> inputs, output |-> outputs, name |-> name,
     axes |-> axes, value |-> value,
     body |-> NoGraph, then_branch |-> NoGraph, else_branch |-> NoGraph]

(***************************************************************************)
(* The context.                                                            *)
(***************************************************************************)
get_shape(shapes, name) == IF name \in DOMAIN shapes THEN shapes[name] ELSE None

get_dtype(dtypes, name) == IF name \in DOMAIN dtypes THEN dtypes[name] ELSE "UNDEFINED"

\* f with f[k] set to v, k added to the domain when it is new
Put(f, k, v) == [x \in DOMAIN f \cup {k} |-> IF x = k THEN v ELSE f[x]]

\* ctx.set_dtype(name, dtype)
set_dtype(dtypes, name, dtype) == Put(dtypes, name, dtype)

\* ctx.copy_shape(node.output[0], loop_scan_output_id): the shape recorded for
\* the second name is put on the first
copy_shape(shapes, to_name, from_name) == Put(shapes, to_name, get_shape(shapes, from_name))

(***************************************************************************)
(* Outcomes.  Every builder returns the counter and the nodes constructed  *)
(* up to its return or its exception.                                      *)
(***************************************************************************)
NoError == ""
UnsupportedArity == "ValueError: Select with only condition is not supported."
ShapeUnavailable == "ValueError: data shape not found, so cannot create subgraph"
IndexError == "IndexError: list index out of range"

Outcome(err, cnt, made, val) == [err |-> err, counter |-> cnt, created |-> made, val |-> val]

(***************************************************************************)
(* get_hidden_size_best_effort                                             *)
(***************************************************************************)
\* the fallback to the false operand left out
get_hidden_size_no_fallback(shapes, node) ==
    IF Len(node.input) < 2 THEN [err |-> IndexError, shape |-> None]
    ELSE LET data_shape == get_shape(shapes, node.input[2]) IN
         IF data_shape.known THEN [err |-> NoError, shape |-> data_shape]
         ELSE [err |-> ShapeUnavailable, shape |-> None]

get_hidden_size_best_effort(shapes, node) ==
    IF Len(node.input) < 2 THEN [err |-> IndexError, shape |-> None]
    ELSE LET data_shape == get_shape(shapes, node.input[2]) IN
         IF data_shape.known THEN [err |-> NoError, shape |-> data_shape]
         ELSE IF Len(node.input) < 3 THEN [err |-> IndexError, shape |-> None]
         ELSE LET data_shape2 == get_shape(shapes, node.input[3]) IN
              IF data_shape2.known THEN [err |-> NoError, shape |-> data_shape2]
              ELSE [err |-> ShapeUnavailable, shape |-> None]

(***************************************************************************)
(* create_body_graph_for_if_branch                                         *)
(***************************************************************************)
\* the node names written as literals instead of drawn from utils.make_name
create_body_graph_literal_names(dtypes, input_id, data_shape, cnt) ==
    LET data_type == get_dtype(dtypes, input_id)
        true_out_name == port_name("Gather", 0)
        true_gather_node ==
            make_node("Gather", <<input_id, "i">>, <<true_out_name>>, "Gather", <<>>, NoTensor)
        true_squeeze_out_name == port_name("Squeeze", 0)
        cur_true_val_scalar_node ==
            make_node("Squeeze", <<true_out_name>>, <<true_squeeze_out_name>>, "Squeeze",
                      <<0>>, NoTensor)
        identity_node ==
            make_node("Identity", <<true_squeeze_out_name>>, <<"y">>, "Identity", <<>>, NoTensor)
        nodes == <<true_gather_node, cur_true_val_scalar_node, identity_node>>
        y == make_tensor_value_info("y", data_type, Slice1(data_shape))
    IN  Outcome(NoError, cnt, nodes, make_graph(nodes, "if-body-graph", <<>>, <<y>>))

create_body_graph_for_if_branch(dtypes, input_id, data_shape, cnt) ==
    LET data_type == get_dtype(dtypes, input_id)
        gather_name == make_name("Gather", cnt)
        true_out_name == port_name(gather_name, 0)
        true_gather_node ==
            make_node("Gather", <<input_id, "i">>, <<true_out_name>>, gather_name, <<>>, NoTensor)
        squeeze_name == make_name("Squeeze", cnt + 1)
        true_squeeze_out_name == port_name(squeeze_name, 0)
        cur_true_val_scalar_node ==
            make_node("Squeeze", <<true_out_name>>, <<true_squeeze_out_name>>, squeeze_name,
                      <<0>>, NoTensor)
        identity_node ==
            make_node("Identity", <<true_squeeze_out_name>>, <<"y">>,
                      make_name("Identity", cnt + 2), <<>>, NoTensor)
        nodes == <<true_gather_node, cur_true_val_scalar_node, identity_node>>
        y == make_tensor_value_info("y", data_type, Slice1(data_shape))
    IN  Outcome(NoError, cnt + 3, nodes, make_graph(nodes, "if-body-graph", <<>>, <<y>>))

(***************************************************************************)
(* create_if_op                                                            *)
(***************************************************************************)
NoValue == [if_node |-> make_node("", <<>>, <<>>, "", <<>>, NoTensor), out_name |-> ""]

\* the two branch graphs built from the wrong operands
create_if_op_swapped(shapes, dtypes, node, cur_cond_val_out_name, cnt) ==
    LET with_graphs(true_graph, false_graph) ==
            LET op_name == make_name("If", false_graph.counter)
                out_name == port_name(op_name, 0)
                if_node == [make_node("If", <<cur_cond_val_out_name>>, <<out_name>>, op_name,
                                      <<>>, NoTensor)
                            EXCEPT !.then_branch = true_graph.val,
                                   !.else_branch = false_graph.val]
            IN  Outcome(NoError, false_graph.counter + 1,
                        true_graph.created \o false_graph.created \o <<if_node>>,
                        [if_node |-> if_node, out_name |-> out_name])
        with_shape(hidden) ==
            IF hidden.err # NoError THEN Outcome(hidden.err, cnt, <<>>, NoValue)
            ELSE IF Len(node.input) < 3 THEN Outcome(IndexError, cnt, <<>>, NoValue)
            ELSE with_graphs(
                    create_body_graph_for_if_branch(dtypes, node.input[3], hidden.shape.dims, cnt),
                    create_body_graph_for_if_branch(dtypes, node.input[2], hidden.shape.dims,
                                                    cnt + 3))
    IN  with_shape(get_hidden_size_best_effort(shapes, node))

\* Each builder below binds the result of a call once (data_shape, true_graph,
\* false_graph, ...) and continues with it, as the statements of the source do.
create_if_op(shapes, dtypes, node, cur_cond_val_out_name, cnt) ==
    LET with_false_graph(true_graph, false_graph) ==
            LET op_name == make_name("If", false_graph.counter)
                out_name == port_name(op_name, 0)
                if_node == [make_node("If", <<cur_cond_val_out_name>>, <<out_name>>, op_name,
                                      <<>>, NoTensor)
                            EXCEPT !.then_branch = true_graph.val,
                                   !.else_branch = false_graph.val]
            IN  Outcome(NoError, false_graph.counter + 1,
                        true_graph.created \o false_graph.created \o <<if_node>>,
                        [if_node |-> if_node, out_name |-> out_name])
        with_true_graph(data_shape, true_graph) ==
            IF Len(node.input) < 3      \* node.input[2] of a two-input node
            THEN Outcome(IndexError, true_graph.counter, true_graph.created, NoValue)
            ELSE with_false_graph(true_graph,
                    create_body_graph_for_if_branch(dtypes, node.input[3], data_shape,
                                                    true_graph.counter))
        with_shape(hidden) ==
            IF hidden.err # NoError THEN Outcome(hidden.err, cnt, <<>>, NoValue)
            ELSE with_true_graph(hidden.shape.dims,
                    create_body_graph_for_if_branch(dtypes, node.input[2], hidden.shape.dims,
                                                    cnt))
    IN  with_shape(get_hidden_size_best_effort(shapes, node))

(***************************************************************************)
(* create_loop_body_graph                                                  *)
(***************************************************************************)
\* the iteration number declared under another name than the one the nodes read
loop_body_inputs_renamed ==
    << make_tensor_value_info("iter", "INT64", <<1>>),
       make_tensor_value_info("cond", "BOOL", <<>>),
       make_tensor_value_info("fake_var", "FLOAT", <<>>) >>

\* graph_inputs: iteration_num, condition, loop-carried dependency
loop_body_inputs ==
    << make_tensor_value_info("i", "INT64", <<1>>),
       make_tensor_value_info("cond", "BOOL", <<>>),
       make_tensor_value_info("fake_var", "FLOAT", <<>>) >>

\* the scan value declared first
loop_body_outputs_scan_first(select_output_data_type, output_shape) ==
    << make_tensor_value_info("output", select_output_data_type, Slice1(output_shape)),
       make_tensor_value_info("cond_output", "BOOL", <<>>),
       make_tensor_value_info("fake_var_output", "FLOAT", <<>>) >>

\* graph_outputs
loop_body_outputs(select_output_data_type, output_shape) ==
    << make_tensor_value_info("cond_output", "BOOL", <<>>),
       make_tensor_value_info("fake_var_output", "FLOAT", <<>>),
       make_tensor_value_info("output", select_output_data_type, Slice1(output_shape)) >>

create_loop_body_graph(shapes, dtypes, node, select_condition_input_id, select_output_data_type, cnt) ==
    LET gather_name == make_name("Gather", cnt)
        cond_gather_out_name == port_name(gather_name, 0)
        cond_gather_node ==
            make_node("Gather", <<select_condition_input_id, "i">>, <<cond_gather_out_name>>,
                      gather_name, <<>>, NoTensor)
        squeeze_name == make_name("Squeeze", cnt + 1)
        cur_cond_val_out_name == port_name(squeeze_name, 0)
        cur_cond_val_scalar_node ==
            make_node("Squeeze", <<cond_gather_out_name>>, <<cur_cond_val_out_name>>,
                      squeeze_name, <<0>>, NoTensor)
        with_output_shape(output_shape, c, nodes, made) ==
            IF output_shape.err # NoError THEN Outcome(output_shape.err, c, made, NoGraph)
            ELSE Outcome(NoError, c, made,
                         make_graph(nodes, "loop-body-graph", loop_body_inputs,
                                    loop_body_outputs(select_output_data_type,
                                                      output_shape.shape.dims)))
        with_identities(head, if_op, tail) ==
            with_output_shape(get_hidden_size_best_effort(shapes, node), if_op.counter + 3,
                              head \o <<if_op.val.if_node>> \o tail,
                              head \o if_op.created \o tail)
        with_if_op(head, if_op) ==
            IF if_op.err # NoError
            THEN Outcome(if_op.err, if_op.counter, head \o if_op.created, NoGraph)
            ELSE with_identities(head, if_op,
                    << make_node("Identity", <<if_op.val.out_name>>, <<"output">>,
                                 make_name("Identity", if_op.counter), <<>>, NoTensor),
                       make_node("Identity", <<"cond">>, <<"cond_output">>,
                                 make_name("Identity", if_op.counter + 1), <<>>, NoTensor),
                       make_node("Identity", <<"fake_var">>, <<"fake_var_output">>,
                                 make_name("Identity", if_op.counter + 2), <<>>, NoTensor) >>)
    IN  with_if_op(<<cond_gather_node, cur_cond_val_scalar_node>>,
                   create_if_op(shapes, dtypes, node, cur_cond_val_out_name, cnt + 2))

(***************************************************************************)
(* create_loop_op                                                          *)
(***************************************************************************)
\* the initial continuation flag set to False
false_tensor(cond_var_name) == make_tensor(cond_var_name, "BOOL", <<>>, <<0>>)

\* true = helper.make_tensor(cond_var_name, TensorProto.BOOL, (), [True])
true_tensor(cond_var_name) == make_tensor(cond_var_name, "BOOL", <<>>, <<1>>)

\* loop_inputs: trip count, termination condition, initial value of the
\* loop-carried dependencies
loop_inputs(trip_cnt_output_id, cond_var_name, fake_val_name) ==
    <<trip_cnt_output_id, cond_var_name, fake_val_name>>

create_loop_op(shapes, dtypes, node, batch_val_input_id, data_type, cnt) ==
    LET cond_var_name == make_name("condition", cnt)
        init_cond == make_node("Constant", <<>>, <<cond_var_name>>, cond_var_name, <<>>,
                               true_tensor(cond_var_name))
        fake_val_name == make_name("fake_var", cnt + 1)
        fake_var_init_val == make_tensor(fake_val_name, "FLOAT", <<>>, <<0>>)
        fake_var_init_node == make_node("Constant", <<>>, <<fake_val_name>>, fake_val_name,
                                        <<>>, fake_var_init_val)
        trip_cnt_name == make_name("loop_gather_indices", cnt + 2)
        trip_cnt_output_id == port_name(trip_cnt_name, 0)
        trip_cnt_cond == make_node("Unsqueeze", <<batch_val_input_id>>, <<trip_cnt_output_id>>,
                                   trip_cnt_name, <<0>>, NoTensor)
        op_name == make_name("loop", cnt + 3)
        out_name == port_name(op_name, 0)
        loop_scan_output_id == port_name(op_name, 1)
        loop_node == make_node("Loop",
                               loop_inputs(trip_cnt_output_id, cond_var_name, fake_val_name),
                               <<out_name, loop_scan_output_id>>, op_name, <<>>, NoTensor)
        with_loop_body(head, node_made, loop_body) ==
            IF loop_body.err # NoError
            THEN Outcome(loop_body.err, loop_body.counter,
                         head \o <<node_made>> \o loop_body.created, <<>>)
            ELSE Outcome(NoError, loop_body.counter,
                         head \o <<node_made>> \o loop_body.created,
                         head \o <<[node_made EXCEPT !.body = loop_body.val]>>)
    IN  with_loop_body(<<init_cond, fake_var_init_node, trip_cnt_cond>>, loop_node,
                       create_loop_body_graph(shapes, dtypes, node, node.input[1], data_type,
                                              cnt + 4))

(***************************************************************************)
(* select_op8                                                              *)
(***************************************************************************)
Rewrite(err, cnt, made, nodes, shapes, dtypes) ==
    [err |-> err, counter |-> cnt, created |-> made, nodes |-> nodes,
     shapes |-> shapes, dtypes |-> dtypes]

\* the Loop's first output, the final carried value, taken for the scan output
loop_first_output(nodes) == nodes[Len(nodes)].output[1]

\* loop_scan_output_id = nodes[-1].output[1]
loop_scan_output(nodes) == nodes[Len(nodes)].output[2]

\* lines 20-40: everything after the arity guard
select_op8_emit(shapes, dtypes, node, cnt) ==
    LET with_output_node(data_type, made, nodes, loop_scan_output_id, counter) ==
            LET op_name == node.name
                output_node ==
                    make_node("Identity", <<loop_scan_output_id>>, <<port_name(op_name, 0)>>,
                              op_name, <<>>, NoTensor)
            IN  Rewrite(NoError, counter, made \o <<output_node>>, nodes \o <<output_node>>,
                        copy_shape(shapes, node.output[1], loop_scan_output_id),
                        set_dtype(dtypes, node.output[1], data_type))
        with_nodes(data_type, made, nodes, counter) ==
            with_output_node(data_type, made, nodes, loop_scan_output(nodes), counter)
        with_loop_op(data_type, batch_size_node, nodes_to_append) ==
            IF nodes_to_append.err # NoError
            THEN Rewrite(nodes_to_append.err, nodes_to_append.counter,
                         <<batch_size_node>> \o nodes_to_append.created, <<>>, shapes, dtypes)
            ELSE with_nodes(data_type, <<batch_size_node>> \o nodes_to_append.created,
                            <<batch_size_node>> \o nodes_to_append.val,
                            nodes_to_append.counter)
        with_size_node(data_type, batch_size_node) ==
            with_loop_op(data_type, batch_size_node,
                         create_loop_op(shapes, dtypes, node, batch_size_node.output[1],
                                        data_type, cnt + 1))
    IN
    IF Len(node.input) < 2      \* node.input[1] is read for the dtype
    THEN Rewrite(IndexError, cnt, <<>>, <<>>, shapes, dtypes)
    ELSE with_size_node(get_dtype(dtypes, node.input[2]),
                        make_node("Size", <<node.input[1]>>,
                                  <<port_name(make_name("Size", cnt), 0)>>,
                                  make_name("Size", cnt), <<>>, NoTensor))

\* the arity guard left out
select_op8_unguarded(shapes, dtypes, node, cnt) == select_op8_emit(shapes, dtypes, node, cnt)

select_op8(shapes, dtypes, node, cnt) ==
    IF Len(node.input) = 1
    THEN Rewrite(UnsupportedArity, cnt, <<>>, <<>>, shapes, dtypes)
    ELSE select_op8_emit(shapes, dtypes, node, cnt)

(***************************************************************************)
(* Execution of the emitted nodes.  A tensor is its dimensions and its     *)
(* elements in row-major order.  Each operator below is the runtime        *)
(* meaning of one node kind the builders emit; a node whose input is       *)
(* missing or ill-shaped yields ErrorTensor.                               *)
(***************************************************************************)
ErrorTensor == make_tensor("", "ERROR", <<>>, <<>>)

RECURSIVE Prod(_)
Prod(dims) == IF dims = <<>> THEN 1 ELSE Head(dims) * Prod(Tail(dims))

RECURSIVE Concat(_)
Concat(seqs) == IF seqs = <<>> THEN <<>> ELSE Head(seqs) \o Concat(Tail(seqs))

\* Size: the number of elements, an int64 scalar
OpSize(t) ==
    IF t.dtype = "ERROR" THEN ErrorTensor
    ELSE make_tensor("", "INT64", <<>>, <<Prod(t.dims)>>)

\* Unsqueeze(axes=[0]): a leading dimension of size 1
OpUnsqueeze(t, axes) ==
    IF t.dtype = "ERROR" \/ axes # <<0>> THEN ErrorTensor
    ELSE make_tensor("", t.dtype, <<1>> \o t.dims, t.data)

\* Squeeze(axes=[0]): drops the leading dimension, which must be 1
OpSqueeze(t, axes) ==
    IF t.dtype = "ERROR" \/ axes # <<0>> \/ t.dims = <<>> THEN ErrorTensor
    ELSE IF Head(t.dims) # 1 THEN ErrorTensor
    ELSE make_tensor("", t.dtype, Tail(t.dims), t.data)

\* Gather along axis 0: the rows of data at the given indices
OpGather(data, indices) ==
    IF data.dtype = "ERROR" \/ indices.dtype # "INT64" \/ data.dims = <<>> THEN ErrorTensor
    ELSE IF \E j \in 1 .. Len(indices.data) :
                indices.data[j] < 0 \/ indices.data[j] >= Head(data.dims)
    THEN ErrorTensor
    ELSE LET block == Prod(Tail(data.dims)) IN
         make_tensor("", data.dtype, indices.dims \o Tail(data.dims),
                     Concat([j \in 1 .. Len(indices.data) |->
                                SubSeq(data.data, indices.data[j] * block + 1,
                                       (indices.data[j] + 1) * block)]))

\* a name resolves in the innermost scope that binds it; env holds the
\* bindings of a scope on top of those of its ancestors
Lookup(env, name) == IF name \in DOMAIN env THEN env[name] ELSE ErrorTensor

RECURSIVE RunNodes(_, _)
RECURSIVE RunNode(_, _)

\* If: exactly one branch graph runs, in a scope nested in the caller's
RunIf(n, env) ==
    LET c == Lookup(env, n.input[1]) IN
    IF c.dtype # "BOOL" \/ c.dims # <<>> THEN ErrorTensor
    ELSE LET g == IF c.data = <<1>> THEN n.then_branch ELSE n.else_branch
             inner == RunNodes(g.node, env)
         IN  IF Len(g.output) # 1 THEN ErrorTensor
             ELSE Lookup(inner, g.output[1].name)

RunNode(n, env) ==
    CASE n.op_type = "Size" -> Put(env, n.output[1], OpSize(Lookup(env, n.input[1])))
      [] n.op_type = "Constant" -> Put(env, n.output[1], n.value)
      [] n.op_type = "Unsqueeze" ->
            Put(env, n.output[1], OpUnsqueeze(Lookup(env, n.input[1]), n.axes))
      [] n.op_type = "Squeeze" ->
            Put(env, n.output[1], OpSqueeze(Lookup(env, n.input[1]), n.axes))
      [] n.op_type = "Gather" ->
            Put(env, n.output[1], OpGather(Lookup(env, n.input[1]), Lookup(env, n.input[2])))
      [] n.op_type = "Identity" -> Put(env, n.output[1], Lookup(env, n.input[1]))
      [] n.op_type = "If" -> Put(env, n.output[1], RunIf(n, env))
      [] OTHER -> [x \in DOMAIN env \cup { n.output[q] : q \in 1 .. Len(n.output) } |->
                      IF x \in DOMAIN env THEN env[x] ELSE ErrorTensor]

\* the nodes run in list order, each on the bindings left by the one before
RunNodes(nodes, env) ==
    IF nodes = <<>> THEN env
    ELSE CHOOSE r \in { RunNodes(Tail(nodes), e) : e \in {RunNode(Head(nodes), env)} } : TRUE

\* one iteration of a Loop body: the formal inputs are bound by position,
\* the iteration number with the shape the body declares for it
RunBody(body, iter, cond, carried, env) ==
    LET formal == [x \in { body.input[j].name : j \in 1 .. Len(body.input) } |->
                      CASE x = body.input[1].name ->
                                make_tensor("", "INT64", body.input[1].shape, <<iter>>)
                        [] x = body.input[2].name -> cond
                        [] OTHER -> carried]
        scope == [x \in DOMAIN formal \cup DOMAIN env |->
                      IF x \in DOMAIN formal THEN formal[x] ELSE env[x]]
    IN  CHOOSE r \in { [cond |-> Lookup(after, body.output[1].name),
                         carried |-> Lookup(after, body.output[2].name),
                         scan |-> Lookup(after, body.output[3].name)]
                        : after \in {RunNodes(body.node, scope)} } : TRUE

\* the scan output: the per-iteration values stacked along a new leading
\* dimension; with no iteration, the body's declared shape stands for the rows
Stack(scan, declared) ==
    IF scan = <<>> THEN make_tensor("", declared.dtype, <<0>> \o declared.shape, <<>>)
    ELSE IF \E j \in 1 .. Len(scan) : scan[j].dtype = "ERROR" \/ scan[j].dims # scan[1].dims
    THEN ErrorTensor
    ELSE make_tensor("", scan[1].dtype, <<Len(scan)>> \o scan[1].dims,
                     Concat([j \in 1 .. Len(scan) |-> scan[j].data]))

(***************************************************************************)
(* The program being converted: up to MaxOps Select nodes over the         *)
(* tensors cond:0, x:0 and y:0.  TensorFlow names the k-th output of node  *)
(* n "n:k"; a node given fewer than three inputs keeps a prefix of them.   *)
(***************************************************************************)
SelectInputs == <<"cond:0", "x:0", "y:0">>

SelectNode(k, arity) ==
    LET name == "Select_" \o ToString(k) IN
    [op_type |-> "Select", name |-> name, input |-> SubSeq(SelectInputs, 1, arity),
     output |-> <<port_name(name, 0)>>]

\* shapes the context may hold for an operand: unknown, dynamic batch, static batch
OperandShapes == {None, Some(<<-1, 2>>), Some(<<2, 2>>)}

Arities == 0 .. 3

Programs(maxOps, arities) ==
    UNION { { [k \in 1 .. n |-> SelectNode(k, a[k])] : a \in [1 .. n -> arities] }
            : n \in 1 .. maxOps }

OutputNames(program) == { program[k].output[1] : k \in 1 .. Len(program) }

InitContext(program, sx, sy, so) ==
    /\ ctx_shape = [n \in {"cond:0", "x:0", "y:0"} \cup OutputNames(program) |->
                        CASE n = "cond:0" -> Some(<<-1>>)
                          [] n = "x:0" -> sx
                          [] n = "y:0" -> sy
                          [] OTHER -> so]
    /\ ctx_dtype = [n \in {"cond:0", "x:0", "y:0"} \cup OutputNames(program) |->
                        IF n = "cond:0" THEN "BOOL" ELSE "FLOAT"]

Idle == [phase |-> "idle"]

Init ==
    /\ INTERNAL_NAME = 0
    /\ created = <<>>
    /\ ops \in Programs(MaxOps, Arities)
    /\ \E sx \in OperandShapes, sy \in OperandShapes, so \in OperandShapes :
            InitContext(ops, sx, sy, so)
    /\ results = <<>>
    /\ resolved = <<>>
    /\ run = Idle

(***************************************************************************)
(* The driver rewrites the operators in order, one select_op8 call each.   *)
(***************************************************************************)
SelectOp8 ==
    /\ Len(results) < Len(ops)
    /\ \E node \in {ops[Len(results) + 1]} :
       \E r \in {select_op8(ctx_shape, ctx_dtype, node, INTERNAL_NAME)} :
           /\ INTERNAL_NAME' = r.counter
           /\ created' = created \o [j \in 1 .. Len(r.created) |-> r.created[j].name]
           /\ ctx_shape' = r.shapes
           /\ ctx_dtype' = r.dtypes
           /\ results' = Append(results, [node |-> node, err |-> r.err, nodes |-> r.nodes,
                                          counter_before |-> INTERNAL_NAME,
                                          counter_after |-> r.counter,
                                          made |-> Len(r.created),
                                          shapes_before |-> ctx_shape,
                                          shapes_after |-> r.shapes,
                                          dtypes_before |-> ctx_dtype,
                                          dtypes_after |-> r.dtypes])
    /\ UNCHANGED <<ops, resolved, run>>

\* get_hidden_size_best_effort on the next operator, as the body builders call it
GetHiddenSize ==
    /\ Len(resolved) < Len(ops)
    /\ Len(resolved) <= Len(results)
    /\ LET node == ops[Len(resolved) + 1] IN
       resolved' = Append(resolved, [node |-> node, shapes |-> ctx_shape,
                                     out |-> get_hidden_size_best_effort(ctx_shape, node)])
    /\ UNCHANGED <<INTERNAL_NAME, ctx_shape, ctx_dtype, created, ops, results, run>>

Next == SelectOp8 \/ GetHiddenSize

Spec == Init /\ [][Next]_vars

(***************************************************************************)
(* Running one rewrite's node list on concrete tensors: a condition vector *)
(* of N elements and two operands of N rows each.                          *)
(***************************************************************************)
RowValues == {<<1, 1>>, <<2, 3>>}

BoolTensor(c) == make_tensor("", "BOOL", <<Len(c)>>, c)

RowsTensor(rows) == make_tensor("", "FLOAT", <<Len(rows), 2>>, Concat(rows))

RunNodesOf == results[run.k].nodes

RunStart ==
    /\ run.phase = "idle"
    /\ \E k \in 1 .. Len(results), n \in 0 .. MaxRows :
        /\ results[k].err = NoError
        /\ \E c \in [1 .. n -> {0, 1}], xr \in [1 .. n -> RowValues],
              yr \in [1 .. n -> RowValues] :
            run' = [phase |-> "top", k |-> k, pc |-> 1,
                    condition |-> c, x |-> xr, y |-> yr,
                    env |-> [t \in {"cond:0", "x:0", "y:0"} |->
                                CASE t = "cond:0" -> BoolTensor(c)
                                  [] t = "x:0" -> RowsTensor(xr)
                                  [] OTHER -> RowsTensor(yr)],
                    trip |-> 0, iter |-> 0, flag |-> NoTensor, carried |-> NoTensor,
                    scan |-> <<>>, trace |-> <<>>]
    /\ UNCHANGED <<INTERNAL_NAME, ctx_shape, ctx_dtype, created, ops, results, resolved>>

AfterNode == IF run.pc = Len(RunNodesOf) THEN "done" ELSE "top"

\* a node other than Loop runs in one step
ExecNode ==
    /\ run.phase = "top"
    /\ RunNodesOf[run.pc].op_type # "Loop"
    /\ run' = [run EXCEPT !.env = RunNode(RunNodesOf[run.pc], run.env),
                          !.pc = run.pc + 1,
                          !.phase = AfterNode]
    /\ UNCHANGED <<INTERNAL_NAME, ctx_shape, ctx_dtype, created, ops, results, resolved>>

\* Loop(M, cond, v_initial): the trip count and the initial values are read
LoopEnter ==
    /\ run.phase = "top"
    /\ RunNodesOf[run.pc].op_type = "Loop"
    /\ LET n == RunNodesOf[run.pc]
           m == Lookup(run.env, n.input[1])
       IN  run' = IF m.dtype = "INT64" /\ Len(m.data) = 1
                  THEN [run EXCEPT !.phase = "loop", !.trip = m.data[1], !.iter = 0,
                                   !.flag = Lookup(run.env, n.input[2]),
                                   !.carried = Lookup(run.env, n.input[3]),
                                   !.scan = <<>>, !.trace = <<>>]
                  ELSE [run EXCEPT !.phase = "failed"]
    /\ UNCHANGED <<INTERNAL_NAME, ctx_shape, ctx_dtype, created, ops, results, resolved>>

LoopContinues == run.iter < run.trip /\ run.flag.data = <<1>>

\* for (i = 0; i < M && cond; ++i): one execution of the body
LoopIter ==
    /\ run.phase = "loop"
    /\ LoopContinues
    /\ \E out \in {RunBody(RunNodesOf[run.pc].body, run.iter, run.flag, run.carried, run.env)} :
            run' = [run EXCEPT !.flag = out.cond, !.carried = out.carried,
                               !.scan = Append(run.scan, out.scan),
                               !.trace = Append(run.trace, run.iter),
                               !.iter = run.iter + 1]
    /\ UNCHANGED <<INTERNAL_NAME, ctx_shape, ctx_dtype, created, ops, results, resolved>>

\* the loop is left: final carried value and stacked scan values are bound
LoopExit ==
    /\ run.phase = "loop"
    /\ ~LoopContinues
    /\ LET n == RunNodesOf[run.pc]
           bound == Put(Put(run.env, n.output[1], run.carried),
                        n.output[2], Stack(run.scan, n.body.output[3]))
       IN  run' = [run EXCEPT !.env = bound, !.pc = run.pc + 1, !.phase = AfterNode]
    /\ UNCHANGED <<INTERNAL_NAME, ctx_shape, ctx_dtype, created, ops, results, resolved>>

Execute == ExecNode \/ LoopEnter \/ LoopIter \/ LoopExit

InitRun ==
    /\ INTERNAL_NAME = 0
    /\ created = <<>>
    /\ ops = <<SelectNode(1, 3)>>
    /\ \E sx \in OperandShapes, sy \in OperandShapes : InitContext(ops, sx, sy, None)
    /\ results = <<>>
    /\ resolved = <<>>
    /\ run = Idle

NextRun == SelectOp8 \/ RunStart \/ ExecNode \/ LoopEnter \/ LoopIter \/ LoopExit

SpecRun == InitRun /\ [][NextRun]_vars

\* Termination does not depend on the shapes the context holds: the fair
\* specification takes the two contexts that differ in the resolver's path.
InitRunFair ==
    /\ INTERNAL_NAME = 0
    /\ created = <<>>
    /\ ops = <<SelectNode(1, 3)>>
    /\ \E sx \in {None, Some(<<-1, 2>>)} : InitContext(ops, sx, Some(<<2, 2>>), None)
    /\ results = <<>>
    /\ resolved = <<>>
    /\ run = Idle

\* the runtime executes a node that can run: nothing else is scheduled
SpecRunFair == InitRunFair /\ [][NextRun]_vars /\ WF_vars(Execute)

(***************************************************************************)
(* Helpers of the properties.                                              *)
(***************************************************************************)
Succeeded(k) == results[k].err = NoError

Rewritten == { k \in 1 .. Len(results) : Succeeded(k) }

\* the one node of a given kind in a node list (0 when there is none)
IndexOf(nodes, op_type) ==
    IF \E j \in 1 .. Len(nodes) : nodes[j].op_type = op_type
    THEN CHOOSE j \in 1 .. Len(nodes) : nodes[j].op_type = op_type
    ELSE 0

LoopOf(k) == results[k].nodes[IndexOf(results[k].nodes, "Loop")]

IfOf(k) == LoopOf(k).body.node[IndexOf(LoopOf(k).body.node, "If")]

\* the nodes of a node list and of every graph nested in it
RECURSIVE AllNodes(_)
AllNodes(nodes) ==
    IF nodes = <<>> THEN <<>>
    ELSE LET n == Head(nodes) IN
         <<n>> \o AllNodes(n.body.node) \o AllNodes(n.then_branch.node)
               \o AllNodes(n.else_branch.node) \o AllNodes(Tail(nodes))

EmittedNodes ==
    Concat([k \in 1 .. Len(results) |->
                IF Succeeded(k) THEN AllNodes(results[k].nodes) ELSE <<>>])

EmittedNodeNames == LET e == EmittedNodes IN [j \in 1 .. Len(e) |-> e[j].name]

EmittedOutputNames == LET e == EmittedNodes IN Concat([j \in 1 .. Len(e) |-> e[j].output])

NoDuplicates(seq) == Cardinality({ seq[j] : j \in 1 .. Len(seq) }) = Len(seq)

Without(seq, names) == SelectSeq(seq, LAMBDA x : x \notin names)

Count(seq, x) == Cardinality({ j \in 1 .. Len(seq) : seq[j] = x })

OutputsOf(nodes) == UNION { { nodes[j].output[q] : q \in 1 .. Len(nodes[j].output) }
                            : j \in 1 .. Len(nodes) }

ValueNames(infos) == { infos[j].name : j \in 1 .. Len(infos) }

\* the names a node list reads that neither the graph's formal inputs nor an
\* earlier node of the same list provides
RECURSIVE Free(_, _)
Free(nodes, local) ==
    IF nodes = <<>> THEN {}
    ELSE LET n == Head(nodes) IN
         ({ n.input[q] : q \in 1 .. Len(n.input) } \ local)
            \cup Free(Tail(nodes), local \cup { n.output[q] : q \in 1 .. Len(n.output) })

\* the declared outputs of a graph that no formal input and no node of it provides
FreeOutputs(g) == ValueNames(g.output) \ (ValueNames(g.input) \cup OutputsOf(g.node))

(***************************************************************************)
(* C1. Row correctness: when the emitted nodes have run on a condition     *)
(* vector of N elements and two operands of N rows, the value bound to the *)
(* operator's output name has exactly N rows, and row i is row i of the    *)
(* true operand when condition[i] is true, else row i of the false         *)
(* operand; the run never fails.                                           *)
(***************************************************************************)
C1_RowCorrectness ==
    /\ run.phase # "failed"
    /\ run.phase = "done" =>
        LET out == Lookup(run.env, ops[run.k].output[1])
            n == Len(run.condition)
        IN  /\ out.dtype = "FLOAT"
            /\ out.dims = <<n, 2>>
            /\ Len(out.data) = 2 * n
            /\ \A i \in 1 .. n :
                    SubSeq(out.data, 2 * i - 1, 2 * i) =
                        IF run.condition[i] = 1 THEN run.x[i] ELSE run.y[i]

C1_Witness ==
    /\ run.phase = "done"
    /\ Len(run.condition) = 2
    /\ run.condition = <<1, 0>>
    /\ run.x = <<<<1, 1>>, <<2, 3>>>>
    /\ run.y = <<<<2, 3>>, <<1, 1>>>>
    /\ Lookup(run.env, ops[run.k].output[1]).data = <<1, 1, 1, 1>>

(***************************************************************************)
(* C2. Arity guard: select_op8 on a node with only the condition input     *)
(* fails with UnsupportedArity, and nothing was emitted: no node was       *)
(* constructed, no name was drawn, no shape or dtype was written.          *)
(***************************************************************************)
C2_ArityGuard ==
    \A k \in 1 .. Len(results) :
        Len(results[k].node.input) = 1 =>
            /\ results[k].err = UnsupportedArity
            /\ results[k].nodes = <<>>
            /\ results[k].made = 0
            /\ results[k].counter_after = results[k].counter_before
            /\ results[k].shapes_after = results[k].shapes_before
            /\ results[k].dtypes_after = results[k].dtypes_before

C2_Witness ==
    /\ Len(results) = 2
    /\ Succeeded(1)
    /\ Len(results[2].node.input) = 1
    /\ results[2].err = UnsupportedArity
    /\ INTERNAL_NAME = results[1].counter_after

(***************************************************************************)
(* C3. UnsupportedArity for every input count below three: select_op8 on a *)
(* node with 0, 1 or 2 inputs fails with UnsupportedArity, with no other   *)
(* error, and without constructing a node.                                 *)
(***************************************************************************)
C3_FewerThanThreeInputs ==
    \A k \in 1 .. Len(results) :
        Len(results[k].node.input) < 3 =>
            /\ results[k].err = UnsupportedArity
            /\ results[k].made = 0

(***************************************************************************)
(* C4. Shape fallback: get_hidden_size_best_effort returns the shape of    *)
(* the true operand when it is known, the shape of the false operand when  *)
(* only that one is known, fails with ShapeUnavailable exactly when both   *)
(* are unknown, and never returns an unknown shape.                        *)
(***************************************************************************)
C4_ShapeFallback ==
    \A k \in 1 .. Len(resolved) :
        LET r == resolved[k] IN
        Len(r.node.input) = 3 =>
            LET sx == r.shapes[r.node.input[2]]
                sy == r.shapes[r.node.input[3]]
            IN  /\ sx.known => r.out.err = NoError /\ r.out.shape = sx
                /\ ~sx.known /\ sy.known => r.out.err = NoError /\ r.out.shape = sy
                /\ r.out.err = ShapeUnavailable <=> ~sx.known /\ ~sy.known
                /\ r.out.err \in {NoError, ShapeUnavailable}
                /\ r.out.err = NoError => r.out.shape.known

C4_Witness ==
    \E k \in 1 .. Len(resolved) :
        /\ Len(resolved[k].node.input) = 3
        /\ ~resolved[k].shapes["x:0"].known
        /\ resolved[k].shapes["y:0"].known
        /\ resolved[k].out.shape = resolved[k].shapes["y:0"]

(***************************************************************************)
(* C5. Shape propagation: after a successful select_op8 the shape recorded *)
(* for the operator's output is [N] + nonBatchShape, where nonBatchShape   *)
(* is the shape chosen by get_hidden_size_best_effort without its leading  *)
(* dimension N; the scan value declared by the loop body and the output y  *)
(* declared by both branch graphs carry nonBatchShape.                     *)
(***************************************************************************)
ChosenShape(k) ==
    LET sx == results[k].shapes_before[results[k].node.input[2]]
        sy == results[k].shapes_before[results[k].node.input[3]]
    IN  IF sx.known THEN sx ELSE sy

C5_SubgraphShapes(k) ==
    LET nonBatchShape == Tail(ChosenShape(k).dims) IN
    /\ LoopOf(k).body.output[3].shape = nonBatchShape
    /\ IfOf(k).then_branch.output[1].shape = nonBatchShape
    /\ IfOf(k).else_branch.output[1].shape = nonBatchShape

C5_ShapePropagation ==
    \A k \in Rewritten :
        /\ results[k].shapes_after[results[k].node.output[1]] =
                Some(<<Head(ChosenShape(k).dims)>> \o Tail(ChosenShape(k).dims))
        /\ C5_SubgraphShapes(k)

(***************************************************************************)
(* C6. Uniqueness.  As claimed: over the top-level nodes, the loop bodies  *)
(* and the branch graphs of all rewrites, the node names are pairwise      *)
(* distinct and the output names are pairwise distinct.                    *)
(***************************************************************************)
C6_AllNamesDistinct ==
    /\ NoDuplicates(EmittedNodeNames)
    /\ NoDuplicates(EmittedOutputNames)

(***************************************************************************)
(* C6 as amended: the node names are pairwise distinct, and so are the     *)
(* output names other than the four fixed graph-output names; y is the     *)
(* output of both branch graphs of every rewrite, and output, cond_output  *)
(* and fake_var_output are outputs in the loop body of every rewrite.      *)
(***************************************************************************)
FixedOutputNames == {"y", "output", "cond_output", "fake_var_output"}

C6_FreshNamesDistinct ==
    /\ NoDuplicates(EmittedNodeNames)
    /\ NoDuplicates(Without(EmittedOutputNames, FixedOutputNames))
    /\ Count(EmittedOutputNames, "y") = 2 * Cardinality(Rewritten)
    /\ \A n \in FixedOutputNames \ {"y"} :
            Count(EmittedOutputNames, n) = Cardinality(Rewritten)

C6_Witness ==
    /\ Len(results) >= 2
    /\ Succeeded(1)
    /\ Succeeded(2)

TrueFlag == [dtype |-> "BOOL", dims |-> <<>>, data |-> <<1>>]

C8_InLoop ==
    run.phase = "loop" =>
        /\ run.trip = Len(run.condition)
        /\ run.flag = TrueFlag
        /\ run.iter <= run.trip
        /\ Len(run.scan) = run.iter
        /\ run.trace = [j \in 1 .. run.iter |-> j - 1]

C8_AfterLoop ==
    (run.phase \in {"top", "done"} /\ run.pc > IndexOf(RunNodesOf, "Loop")) =>
        /\ run.iter = Len(run.condition)
        /\ run.trace = [j \in 1 .. Len(run.condition) |-> j - 1]
        /\ Len(run.scan) = Len(run.condition)
        /\ Lookup(run.env, RunNodesOf[IndexOf(RunNodesOf, "Loop")].output[2]).dims
                = <<Len(run.condition), 2>>

C8_TripCountBounded ==
    /\ [](run.phase # "failed" /\ C8_InLoop /\ C8_AfterLoop)
    /\ (run.phase = "loop") ~> (run.phase \in {"top", "done"})

C8_Witness ==
    /\ run.phase = "done"
    /\ Len(run.condition) = 2
    /\ run.trace = <<0, 1>>
    /\ Len(run.scan) = 2

(***************************************************************************)
(* C9. Loop-body signature: the body declares the inputs i, cond, fake_var *)
(* and the outputs continuation flag (boolean scalar), carried placeholder *)
(* (float scalar), scan value, in this order; the first two outputs are    *)
(* pass-throughs of cond and fake_var; the Loop node has three inputs and  *)
(* two outputs, one carried output per carried input.                      *)
(***************************************************************************)
PassThrough(g, from, to) ==
    /\ Cardinality({ j \in 1 .. Len(g.node) : to \in OutputsOf(<<g.node[j]>>) }) = 1
    /\ \E j \in 1 .. Len(g.node) :
        /\ g.node[j].op_type = "Identity"
        /\ g.node[j].input = <<from>>
        /\ g.node[j].output = <<to>>

C9_LoopBodySignature ==
    \A k \in Rewritten :
        LET loop == LoopOf(k)
            body == loop.body
        IN  /\ [j \in 1 .. Len(body.input) |-> body.input[j].name] = <<"i", "cond", "fake_var">>
            /\ Len(body.output) = 3
            /\ body.output[1].dtype = "BOOL" /\ body.output[1].shape = <<>>
            /\ body.output[2].dtype = "FLOAT" /\ body.output[2].shape = <<>>
            /\ body.output[3].dtype = results[k].dtypes_before[results[k].node.input[2]]
            /\ PassThrough(body, "cond", body.output[1].name)
            /\ PassThrough(body, "fake_var", body.output[2].name)
            /\ body.output[3].name \in OutputsOf(body.node)
            /\ Len(loop.input) = 3
            /\ Len(loop.output) = 2
            /\ Len(body.input) - 2 = Len(loop.input) - 2
            /\ Len(body.output) - 2 = Len(loop.output) - 1

C9_Witness ==
    \E k \in Rewritten :
        /\ LoopOf(k).body.output[1].name = "cond_output"
        /\ LoopOf(k).body.output[3].name = "output"
        /\ LoopOf(k).input[2] = "condition__" \o ToString(results[k].counter_before + 2)

(***************************************************************************)
(* C10. Scope closure: in the top-level list, in the loop body and in both *)
(* branch graphs, every node input and every declared output is a formal   *)
(* input of the graph, the output of an earlier node of the same graph, or *)
(* a name of an ancestor scope: the Select's own inputs for every graph,   *)
(* and the body's formal input i for the branch graphs.                    *)
(***************************************************************************)
C10_ScopeClosure ==
    \A k \in Rewritten :
        LET r == results[k]
            outer == { r.node.input[q] : q \in 1 .. Len(r.node.input) }
            body == LoopOf(k).body
            if_node == IfOf(k)
            formal == ValueNames(body.input)
        IN  /\ Free(r.nodes, {}) \subseteq outer
            /\ r.node.output[1] \in OutputsOf(r.nodes)
            /\ Free(body.node, formal) \subseteq outer
            /\ FreeOutputs(body) \subseteq outer
            /\ \A g \in {if_node.then_branch, if_node.else_branch} :
                /\ g.node # <<>>
                /\ Free(g.node, {}) \subseteq outer \cup ({"i"} \cap formal)
                /\ FreeOutputs(g) \subseteq outer \cup ({"i"} \cap formal)

C10_Witness ==
    \E k \in Rewritten :
        /\ Free(IfOf(k).then_branch.node, {}) = {"x:0", "i"}
        /\ Free(IfOf(k).else_branch.node, {}) = {"y:0", "i"}
        /\ Free(LoopOf(k).body.node, {"i", "cond", "fake_var"}) = {"cond:0"}

====
